---- MODULE Spec2Model ----
(***************************************************************************)
(* Model of mt/sql/base.py (inteplus/mtsql): the bounded retry executor    *)
(* run_func, the transactional scope conn_ctx, engine_execute, exec_sql,   *)
(* temp_table_drop and the chunked read accumulator read_sql.              *)
(*                                                                         *)
(* The database driver (sqlalchemy, pandas.read_sql) is the environment:   *)
(* every call into it either succeeds or raises one of DriverErrors, and   *)
(* the choice is nondeterministic.  One public call is in progress at a    *)
(* time (the layer is synchronous and single-threaded); pc is the position *)
(* of that call.  The driver can fail in engine.begin(), in the statement  *)
(* and in every fetch of a batch; commit and rollback themselves succeed.  *)
(* trace, events, sent and streamErr record what the driver was asked and  *)
(* what it answered; the properties are stated over them.                  *)
(***************************************************************************)
EXTENDS Integers, Sequences, FiniteSets, TLC

\* ----- bounds of the model ------------------------------------------------
MaxTrials == 3      \* nb_trials ranges over -1..MaxTrials
MaxRows == 3        \* the statement's result set has 0..MaxRows rows
MaxChunk == 2       \* chunksize ranges over 1..MaxChunk (or None)
MaxLen == 4         \* SQL texts given to trim_sql_query have 0..MaxLen characters
MaxTables == 2      \* list_tables returns 0..MaxTables table names

\* ----- values ---------------------------------------------------------------
\* chunksize = None is encoded as 0 (a chunk size is a positive integer)
None == 0

Handles == {"Engine", "Connection"}

\* exception_handling: the two documented policies and an unrecognised value
Policies == {"raise", "warn", "ignore"}

\* The exception classes named by run_func's except clauses, with the
\* classes they derive from (sqlalchemy.exc, psycopg2, builtins).
Base(t) ==
    CASE t = "ProgrammingError"   -> "DatabaseError"
      [] t = "IntegrityError"     -> "DatabaseError"
      [] t = "OperationalError"   -> "DatabaseError"
      [] t = "DataError"          -> "DatabaseError"
      [] t = "DatabaseError"      -> "DBAPIError"
      [] t = "InterfaceError"     -> "DBAPIError"
      [] t = "DBAPIError"         -> "StatementError"
      [] t = "StatementError"     -> "SQLAlchemyError"
      [] t = "SQLAlchemyError"    -> "Exception"
      [] t = "psOperationalError" -> "psDatabaseError"
      [] t = "psDatabaseError"    -> "psError"
      [] t = "psError"            -> "Exception"
      [] t = "ValueError"         -> "Exception"
      [] t = "RuntimeError"       -> "Exception"
      [] t = "Exception"          -> "BaseException"
      [] t = "KeyboardInterrupt"  -> "BaseException"
      [] OTHER                    -> "object"

ExcTypes ==
    {"ProgrammingError", "IntegrityError", "OperationalError", "DataError",
     "DatabaseError", "InterfaceError", "DBAPIError", "StatementError",
     "SQLAlchemyError", "psOperationalError", "psDatabaseError", "psError",
     "ValueError", "RuntimeError", "Exception", "KeyboardInterrupt",
     "BaseException"}

\* isinstance(e, c) for an exception e of class t
RECURSIVE IsInstance(_, _)
IsInstance(t, c) ==
    IF t = c THEN TRUE
    ELSE IF t = "object" THEN FALSE
    ELSE IsInstance(Base(t), c)

\* except (se.ProgrammingError, se.IntegrityError)
FatalClause == {"ProgrammingError", "IntegrityError"}

\* except (se.DatabaseError, se.OperationalError, ps.OperationalError, se.InterfaceError)
TransientClause ==
    {"DatabaseError", "OperationalError", "psOperationalError", "InterfaceError"}

\* a slip that lists the broad clause first: DatabaseError swallows its subclasses
ClassifyBroadFirst(t) ==
    IF \E c \in TransientClause : IsInstance(t, c) THEN "Transient"
    ELSE IF \E c \in FatalClause : IsInstance(t, c) THEN "Fatal"
    ELSE "Unknown"

\* a slip that retries on every exception not re-raised by the first clause
ClassifyCatchAll(t) ==
    IF \E c \in FatalClause : IsInstance(t, c) THEN "Fatal"
    ELSE "Transient"

\* The except clauses of run_func, tried in order: the first matching clause
\* handles the error; an error matching no clause is not caught.
Classify(t) ==
    IF \E c \in FatalClause : IsInstance(t, c) THEN "Fatal"
    ELSE IF \E c \in TransientClause : IsInstance(t, c) THEN "Transient"
    ELSE "Unknown"

\* The errors the driver raises in this model
DriverErrors ==
    {"ProgrammingError", "IntegrityError", "OperationalError", "DataError",
     "InterfaceError", "psOperationalError", "DBAPIError", "ValueError",
     "KeyboardInterrupt"}

\* an exception value: its class, where it was raised, and the trial / fetch
\* number (or the trial count, for the exhaustion error) that identifies it
Exc(t, origin, idx) == [type |-> t, origin |-> origin, idx |-> idx]
NoErr == Exc("none", "none", 0)
NoResult == <<-1>>

\* func.__module__ + "." + func.__name__ of the operation run_func is given
FuncName(o) ==
    CASE o = "exec_sql" -> "mt.sql.base.engine_execute"
      [] o = "read_sql" -> "pandas.read_sql"
      [] OTHER          -> "func"

\* off by one: one trial too many
InRangeInclusive(i, n) == i <= n

\* for x in range(nb_trials): the loop body runs while x < nb_trials
InRange(i, n) == i < n

\* a diagnostic that numbers the attempts from 0
TrialIndexZeroBased(i) == i

\* the attempt number x+1 shown in the diagnostic of a failed trial
TrialIndex(i) == i + 1

\* the message of the RuntimeError raised after the loop
ExhaustedError(n, name) == Exc("RuntimeError", name, n)

\* a scope that opens a transaction on whatever it is given
conn_ctx_always_begin(h) == "begin"

\* conn_ctx: engine.begin() for an Engine, nullcontext for anything else
conn_ctx(h) == IF h = "Engine" THEN "begin" ELSE "nullenter"

\* a scope that commits however it is left
ctx_exit_always_commit(h, failed) ==
    IF h = "Engine" THEN "commit" ELSE "nullexit"

\* a scope that never commits
ctx_exit_never_commit(h, failed) ==
    IF h = "Engine" THEN "rollback" ELSE "nullexit"

\* leaving the with block: engine.begin() commits on normal exit and rolls
\* back when an exception propagates; nullcontext does nothing
ctx_exit(h, failed) ==
    IF h = "Engine" THEN (IF failed THEN "rollback" ELSE "commit")
    ELSE "nullexit"

\* outcome of one call into the driver: type is "ok" or the class raised,
\* at says whether engine.begin() or the statement raised it
Ok == [type |-> "ok", at |-> "call"]
Failure(e, at) == [type |-> e, at |-> at]

\* engine_execute: the driver calls one invocation makes on the handle
engine_execute(h, o) ==
    IF o.at = "begin" THEN <<>>
    ELSE <<conn_ctx(h), "execute", ctx_exit(h, o.type # "ok")>>

\* where an invocation of the operation can fail
FailPoints(o, h) ==
    IF o \in {"exec_sql", "temp_table_drop"} /\ conn_ctx(h) = "begin"
    THEN {"begin", "call"} ELSE {"call"}

\* ----- the chunk stream pandas.read_sql returns ----------------------------
Min(a, b) == IF a < b THEN a ELSE b

\* the result set of the statement: rows 1..n in the driver's order
Table(n) == [i \in 1..n |-> i]

\* number of batches of an error-free stream: fetchmany(chunksize) until the
\* rows run out; pandas yields one empty frame when there is no row at all
NumBatches(n, c) == IF n = 0 THEN 1 ELSE (n + c - 1) \div c

\* the k-th batch: fetchmany(chunksize)
Batch(tbl, c, k) == SubSeq(tbl, (k - 1) * c + 1, Min(k * c, Len(tbl)))

\* a concatenation that loses the first batch
RECURSIVE ConcatDropFirst(_)
ConcatDropFirst(l) ==
    IF Len(l) <= 1 THEN <<>> ELSE ConcatDropFirst(SubSeq(l, 1, Len(l) - 1)) \o l[Len(l)]

\* a concatenation that puts the newest batch first
RECURSIVE ConcatReversed(_)
ConcatReversed(l) ==
    IF l = <<>> THEN <<>> ELSE l[Len(l)] \o ConcatReversed(SubSeq(l, 1, Len(l) - 1))

\* pd.concat(dfs): the rows of the frames in list order
RECURSIVE Concat(_)
Concat(l) == IF l = <<>> THEN <<>> ELSE l[1] \o Concat(Tail(l))

\* pd.concat raises ValueError("No objects to concatenate") on an empty list
ConcatRaises(l) == l = <<>>

\* the two policies exchanged
PolicyIsRaiseSwapped(p) == p = "warn"

\* if exception_handling == "raise"
PolicyIsRaise(p) == p = "raise"

\* a check that lets every value other than "raise" through as "warn"
PolicyIsInvalidNever(p) == FALSE

\* if exception_handling != "warn"
PolicyIsInvalid(p) == p # "warn"

\* ----- SQL text ---------------------------------------------------------------
\* A text is a sequence of characters.  str.split() splits on whitespace,
\* str.splitlines() on line boundaries.
Chars == {"a", "b", " ", "\t", "\n"}
IsSpace(c) == c \in {" ", "\t", "\n"}
IsLineBreak(c) == c = "\n"

\* s.splitlines(): the lines of s without their line breaks; a line break at
\* the very end does not start a further, empty line
RECURSIVE SplitLines(_)
SplitLines(s) ==
    IF s = <<>> THEN <<>>
    ELSE IF \A i \in DOMAIN s : ~IsLineBreak(s[i]) THEN <<s>>
    ELSE LET k == CHOOSE i \in DOMAIN s :
                    IsLineBreak(s[i]) /\ \A j \in 1..(i - 1) : ~IsLineBreak(s[j])
         IN <<SubSeq(s, 1, k - 1)>> \o SplitLines(SubSeq(s, k + 1, Len(s)))

\* s.split(): the maximal runs of non-whitespace characters, in order
RECURSIVE Split(_)
Split(s) ==
    IF s = <<>> THEN <<>>
    ELSE IF IsSpace(s[1]) THEN Split(Tail(s))
    ELSE LET k == CHOOSE i \in DOMAIN s :
                    /\ \A j \in 1..i : ~IsSpace(s[j])
                    /\ i = Len(s) \/ IsSpace(s[i + 1])
         IN <<SubSeq(s, 1, k)>> \o Split(SubSeq(s, k + 1, Len(s)))

\* sep.join(parts)
RECURSIVE Join(_, _)
Join(parts, sep) ==
    IF parts = <<>> THEN <<>>
    ELSE IF Len(parts) = 1 THEN parts[1]
    ELSE parts[1] \o sep \o Join(Tail(parts), sep)

\* a normalisation that stops after joining the lines
trim_sql_query_lines_only(sql_query) == Join(SplitLines(sql_query), <<" ">>)

\* trim_sql_query: " ".join(s.splitlines()), then " ".join(s.split())
trim_sql_query(sql_query) ==
    Join(Split(Join(SplitLines(sql_query), <<" ">>)), <<" ">>)

\* an argument that is a text, and one that is a query object; the text of a
\* query object is what str(sql.compile(literal_binds)) renders
Str(t) == [kind |-> "str", text |-> t]
Query(t) == [kind |-> "query", text |-> t]
NoArg == [kind |-> "none", text |-> <<>>]

\* the statements read_sql is called with in this model
SqlInputs ==
    {Str(<<"a", " ", " ", "\n", "b">>), Query(<<"a", "\n", " ", "b">>)}

\* a read_sql that executes the text it displays
StatementFromDisplay(sql) ==
    [executable |-> [kind |-> "TextClause", text |-> trim_sql_query(sql.text)],
     display |-> trim_sql_query(sql.text)]

\* read_sql, lines 160-165: sa.text(sql) of the text as given, or the query
\* object itself, is what is executed; the trimmed text is only displayed
Statement(sql) ==
    [executable |-> IF sql.kind = "str"
                    THEN [kind |-> "TextClause", text |-> sql.text]
                    ELSE sql,
     display |-> trim_sql_query(sql.text)]
NoStmt == [executable |-> NoArg, display |-> <<>>]

\* ----- temp table names -------------------------------------------------------
DigitChars == <<"0", "1", "2", "3", "4", "5", "6", "7", "8", "9">>
IsDigit(c) == \E d \in DOMAIN DigitChars : DigitChars[d] = c
DigitValue(c) == (CHOOSE d \in DOMAIN DigitChars : DigitChars[d] = c) - 1

\* str(n) for n >= 0
RECURSIVE IntToStr(_)
IntToStr(n) ==
    IF n < 10 THEN <<DigitChars[n + 1]>>
    ELSE IntToStr(n \div 10) \o <<DigitChars[(n % 10) + 1]>>

\* int(s) for a string of digits
RECURSIVE StrToInt(_)
StrToInt(s) ==
    IF s = <<>> THEN 0
    ELSE StrToInt(SubSeq(s, 1, Len(s) - 1)) * 10 + DigitValue(s[Len(s)])

TempPrefix == <<"m", "t", "t", "m", "p", "_">>

\* temp_table_name: f"mttmp_{id}"
temp_table_name(id) == TempPrefix \o IntToStr(id)

\* re.match(r"mttmp_(\d+)", name): the prefix at the start of the name, then as
\* many digits as follow (at least one); group 1 is that run of digits, <<>>
\* stands for no match
MatchTemp(name) ==
    IF /\ Len(name) > Len(TempPrefix)
       /\ SubSeq(name, 1, Len(TempPrefix)) = TempPrefix
       /\ IsDigit(name[Len(TempPrefix) + 1])
    THEN LET k == CHOOSE i \in (Len(TempPrefix) + 1)..Len(name) :
                    /\ \A j \in (Len(TempPrefix) + 1)..i : IsDigit(name[j])
                    /\ i = Len(name) \/ ~IsDigit(name[i + 1])
         IN SubSeq(name, Len(TempPrefix) + 1, k)
    ELSE <<>>

\* the names base.py binds at module level (its import statements)
ImportedNames == {"uuid", "sa", "se", "ps", "tp", "logg", "pd", "ctx", "Halo"}

\* the loop of temp_table_find_new_id over l_tableNames from position i on
RECURSIVE FindMaxId(_, _, _)
FindMaxId(names, i, max_id) ==
    IF i > Len(names) THEN max_id
    ELSE LET m == MatchTemp(names[i]) IN
         IF m # <<>> /\ max_id < StrToInt(m)
         THEN FindMaxId(names, i + 1, StrToInt(m))
         ELSE FindMaxId(names, i + 1, max_id)

\* temp_table_find_new_id: the first iteration evaluates re.match, and the name
\* re is not bound in the module
temp_table_find_new_id(names) ==
    IF names = <<>> THEN [raises |-> FALSE, value |-> -1 + 1]
    ELSE IF "re" \notin ImportedNames THEN [raises |-> TRUE, value |-> 0]
    ELSE [raises |-> FALSE, value |-> FindMaxId(names, 1, -1) + 1]

\* the table names list_tables can return in this model
TableNames ==
    {temp_table_name(0), temp_table_name(3), temp_table_name(7),
     temp_table_name(12), <<"u", "s", "e", "r", "s">>, TempPrefix,
     TempPrefix \o <<"x">>}

\* ----- state ----------------------------------------------------------------
VARIABLES
    op,                  \* the public operation in progress
    pc,                  \* its position: idle, trial, stream, done
    handle,              \* Engine, Connection (none for a bare run_func)
    nb_trials, logger, chunksize, exception_handling,   \* its arguments
    rows,                \* the result set the driver holds for the statement
    x,                   \* run_func's loop variable
    trace,               \* outcome of every invocation of the operation so far
    diag,                \* attempt numbers of the diagnostics run_func emitted
    events,              \* calls made on the handle and scope entries/exits
    committed,           \* trials whose writes this layer committed
    stream,              \* the chunk stream: none, open, exhausted, failed
    sent,                \* batches the stream has delivered
    streamErr,           \* the error the stream raised, if it failed
    dfs, cnt,            \* read_sql's accumulated batches and row count
    spinner,             \* reports made to the progress spinner
    warned,              \* logger.warn_last_exception() called by read_sql
    outcome, err, result, \* how the call ended: return / raise, with what
    arg,                 \* the statement, text or table list the call was given
    stmt,                \* read_sql's executable statement and display text
    prev                 \* the call before this one, when two calls are compared

vars == <<op, pc, handle, nb_trials, logger, chunksize, exception_handling,
          rows, x, trace, diag, events, committed, stream, sent, streamErr,
          dfs, cnt, spinner, warned, outcome, err, result, arg, stmt, prev>>

\* what is kept of a call to compare the next one with
NoPrev ==
    [op |-> "none", handle |-> "none", nb_trials |-> 0, logger |-> FALSE,
     chunksize |-> None, exception_handling |-> "raise", rows |-> <<>>,
     arg |-> NoArg, trace |-> <<>>, diag |-> <<>>, events |-> <<>>,
     committed |-> {},
     stream |-> "none", sent |-> 0, streamErr |-> NoErr, spinner |-> <<>>,
     outcome |-> "none", err |-> NoErr, result |-> NoResult]

Init ==
    /\ op = "none" /\ pc = "idle" /\ handle = "none"
    /\ nb_trials = 0 /\ logger = FALSE /\ chunksize = None
    /\ exception_handling = "raise"
    /\ rows = <<>>
    /\ x = 0 /\ trace = <<>> /\ diag = <<>> /\ events = <<>> /\ committed = {}
    /\ stream = "none" /\ sent = 0 /\ streamErr = NoErr /\ dfs = <<>> /\ cnt = 0
    /\ spinner = <<>> /\ warned = FALSE
    /\ outcome = "none" /\ err = NoErr /\ result = NoResult
    /\ arg = NoArg /\ stmt = NoStmt /\ prev = NoPrev

\* the arguments and locals of a call are gone when it has returned or raised:
\* nothing of it is kept for the next call
Reset ==
    /\ op' = "none" /\ pc' = "idle" /\ handle' = "none"
    /\ nb_trials' = 0 /\ logger' = FALSE /\ chunksize' = None
    /\ exception_handling' = "raise"
    /\ rows' = <<>>
    /\ x' = 0 /\ trace' = <<>> /\ diag' = <<>> /\ events' = <<>> /\ committed' = {}
    /\ stream' = "none" /\ sent' = 0 /\ streamErr' = NoErr /\ dfs' = <<>> /\ cnt' = 0
    /\ spinner' = <<>> /\ warned' = FALSE
    /\ outcome' = "none" /\ err' = NoErr /\ result' = NoResult
    /\ arg' = NoArg /\ stmt' = NoStmt

CallEnds ==
    /\ pc = "done"
    /\ Reset
    /\ UNCHANGED prev

\* a new call starts with fresh locals
Enter(o, h, n, lg, cs, eh, tbl) ==
    /\ pc = "idle"
    /\ op' = o /\ handle' = h /\ nb_trials' = n /\ logger' = lg
    /\ chunksize' = cs /\ exception_handling' = eh /\ rows' = tbl
    /\ x' = 0 /\ diag' = <<>>
    /\ stream' = "none" /\ sent' = 0 /\ streamErr' = NoErr /\ dfs' = <<>> /\ cnt' = 0
    /\ warned' = FALSE
    /\ UNCHANGED prev

\* a read_sql that under 'warn' also answers an error of obtaining the result
\* with an empty table
RaiseUnlessWarn(e) ==
    IF op = "read_sql" /\ exception_handling = "warn" /\ stream = "none"
    THEN outcome' = "return" /\ err' = NoErr /\ result' = <<>> /\ pc' = "done"
    ELSE outcome' = "raise" /\ err' = e /\ result' = NoResult /\ pc' = "done"

Raise(e) == outcome' = "raise" /\ err' = e /\ result' = NoResult /\ pc' = "done"
Return(v) == outcome' = "return" /\ err' = NoErr /\ result' = v /\ pc' = "done"
Running(p) == outcome' = "none" /\ err' = NoErr /\ result' = NoResult /\ pc' = p

\* ----- run_func(func, ...) called directly ------------------------------------
run_func(n, lg) ==
    /\ Enter("run_func", "none", n, lg, None, "raise", <<>>)
    /\ arg' = NoArg /\ stmt' = NoStmt
    /\ trace' = <<>> /\ events' = <<>> /\ committed' = {} /\ spinner' = <<>>
    /\ Running("trial")

\* ----- exec_sql: run_func(engine_execute, engine, sql, ...) -------------------
exec_sql(h, n, lg) ==
    /\ Enter("exec_sql", h, n, lg, None, "raise", <<>>)
    /\ arg' = NoArg /\ stmt' = NoStmt
    /\ trace' = <<>> /\ events' = <<>> /\ committed' = {} /\ spinner' = <<>>
    /\ Running("trial")

\* ----- read_sql up to the with statement --------------------------------------
read_sql(sql, h, n, lg, cs, eh, nr) ==
    /\ Enter("read_sql", h, n, lg, cs, eh, Table(nr))
    /\ arg' = sql /\ stmt' = Statement(sql)
    /\ spinner' = IF cs # None THEN <<"start">> ELSE <<>>
    /\ trace' = <<>> /\ committed' = {}
    /\ events' = <<conn_ctx(h)>>
    /\ Running("trial")

\* engine.begin() raises: the error leaves read_sql as it is
read_sql_begin_fails(sql, h, n, lg, cs, eh, nr, e) ==
    /\ conn_ctx(h) = "begin"
    /\ Enter("read_sql", h, n, lg, cs, eh, Table(nr))
    /\ arg' = sql /\ stmt' = Statement(sql)
    /\ spinner' = IF cs # None THEN <<"start">> ELSE <<>>
    /\ trace' = <<>> /\ committed' = {}
    /\ events' = <<>>
    /\ Raise(Exc(e, "begin", 0))

\* ----- temp_table_drop: one engine_execute, no retry --------------------------
temp_table_drop(h, o) ==
    /\ Enter("temp_table_drop", h, 1, FALSE, None, "raise", <<>>)
    /\ arg' = NoArg /\ stmt' = NoStmt
    /\ o.at \in FailPoints("temp_table_drop", h)
    /\ spinner' = <<>>
    /\ trace' = <<o>>
    /\ events' = engine_execute(h, o)
    /\ committed' = IF "commit" \in {events'[i] : i \in DOMAIN events'} THEN {1} ELSE {}
    /\ IF o.type = "ok" THEN Return(<<1>>) ELSE Raise(Exc(o.type, "func", 1))

\* ----- temp_table_find_new_id on the table names list_tables returned -----------
FindNewId(names) ==
    /\ Enter("temp_table_find_new_id", "Engine", 1, FALSE, None, "raise", <<>>)
    /\ arg' = [kind |-> "tables", text |-> names] /\ stmt' = NoStmt
    /\ trace' = <<>> /\ events' = <<>> /\ committed' = {} /\ spinner' = <<>>
    /\ IF temp_table_find_new_id(names).raises
       THEN Raise(Exc("NameError", "re", 1))
       ELSE Return(<<temp_table_find_new_id(names).value>>)

\* ----- trim_sql_query applied to a text ----------------------------------------
TrimSqlQuery(s) ==
    /\ Enter("trim_sql_query", "none", 1, FALSE, None, "raise", <<>>)
    /\ arg' = Str(s) /\ stmt' = NoStmt
    /\ trace' = <<>> /\ events' = <<>> /\ committed' = {} /\ spinner' = <<>>
    /\ Return(trim_sql_query(s))

\* ----- one trial of run_func's loop -------------------------------------------
\* the driver calls the k-th invocation of the operation makes
TrialEvents(o) ==
    IF op = "exec_sql" THEN engine_execute(handle, o) ELSE <<"execute">>

\* what leaving read_sql's with block adds
ScopeExit(failed) ==
    IF op = "read_sql" THEN <<ctx_exit(handle, failed)>> ELSE <<>>

Commits(evs, k) ==
    IF op = "exec_sql" /\ "commit" \in {evs[i] : i \in DOMAIN evs} THEN {k} ELSE {}

\* return func(*args, **kwargs)
FuncReturns ==
    /\ pc = "trial" /\ InRange(x, nb_trials)
    /\ trace' = Append(trace, Ok)
    /\ events' = events \o TrialEvents(Ok) \o ScopeExit(FALSE)
    /\ committed' = committed \cup Commits(TrialEvents(Ok), Len(trace'))
    /\ IF op = "read_sql"
       THEN IF chunksize = None
            THEN Return(rows) /\ stream' = stream
            ELSE Running("stream") /\ stream' = "open"
       ELSE Return(<<Len(trace')>>) /\ stream' = stream
    /\ UNCHANGED <<op, handle, nb_trials, logger, chunksize, exception_handling,
                   rows, x, diag, sent, streamErr, dfs, cnt, spinner, warned,
                   arg, stmt, prev>>

\* the error is caught by the second except clause: warn and try again
FuncFailsTransient(e, at) ==
    /\ pc = "trial" /\ InRange(x, nb_trials)
    /\ at \in FailPoints(op, handle)
    /\ Classify(e) = "Transient"
    /\ trace' = Append(trace, Failure(e, at))
    /\ events' = events \o TrialEvents(Failure(e, at))
    /\ committed' = committed \cup Commits(TrialEvents(Failure(e, at)), Len(trace'))
    /\ diag' = IF logger THEN Append(diag, TrialIndex(x)) ELSE diag
    /\ x' = x + 1
    /\ UNCHANGED <<op, pc, handle, nb_trials, logger, chunksize,
                   exception_handling, rows, stream, sent, streamErr, dfs, cnt,
                   spinner, warned, outcome, err, result,
                   arg, stmt, prev>>

\* the error is re-raised by the first clause or caught by none
FuncFailsPropagate(e, at) ==
    /\ pc = "trial" /\ InRange(x, nb_trials)
    /\ at \in FailPoints(op, handle)
    /\ Classify(e) # "Transient"
    /\ trace' = Append(trace, Failure(e, at))
    /\ events' = events \o TrialEvents(Failure(e, at)) \o ScopeExit(TRUE)
    /\ committed' = committed \cup Commits(TrialEvents(Failure(e, at)), Len(trace'))
    /\ Raise(Exc(e, "func", Len(trace')))
    /\ UNCHANGED <<op, handle, nb_trials, logger, chunksize, exception_handling,
                   rows, x, diag, stream, sent, streamErr, dfs, cnt, spinner,
                   warned,
                   arg, stmt, prev>>

\* a loop that starts over when it has run out
RunFuncExhaustedRestarts ==
    /\ pc = "trial" /\ ~InRange(x, nb_trials)
    /\ x' = 0
    /\ UNCHANGED <<op, pc, handle, nb_trials, logger, chunksize,
                   exception_handling, rows, trace, diag, events, committed,
                   stream, sent, streamErr, dfs, cnt, spinner, warned, outcome,
                   err, result, arg, stmt, prev>>

\* the loop ran out: raise RuntimeError("Attempted {} times ... but failed.")
RunFuncExhausted ==
    /\ pc = "trial" /\ ~InRange(x, nb_trials)
    /\ events' = events \o ScopeExit(TRUE)
    /\ Raise(ExhaustedError(nb_trials, FuncName(op)))
    /\ UNCHANGED <<op, handle, nb_trials, logger, chunksize, exception_handling,
                   rows, x, trace, diag, committed, stream, sent, streamErr, dfs,
                   cnt, spinner, warned,
                   arg, stmt, prev>>

\* ----- read_sql consuming the chunk stream ------------------------------------
\* an except block that goes back into the retry loop on a transient error
HandleStreamErrorRetry(e) ==
    IF Classify(e.type) = "Transient"
    THEN spinner' = spinner /\ warned' = logger /\ Running("trial")
    ELSE /\ spinner' = Append(spinner, "fail")
         /\ warned' = logger
         /\ IF PolicyIsRaise(exception_handling) THEN Raise(e)
            ELSE IF PolicyIsInvalid(exception_handling)
                 THEN Raise(Exc("ValueError", exception_handling, 0))
            ELSE IF ConcatRaises(dfs) THEN Raise(Exc("ValueError", "pd.concat", 0))
            ELSE Return(Concat(dfs))

\* an except block that re-raises only when it has a logger to report to
HandleStreamErrorNeedsLogger(e) ==
    /\ spinner' = Append(spinner, "fail")
    /\ warned' = logger
    /\ IF logger /\ PolicyIsRaise(exception_handling) THEN Raise(e)
       ELSE IF PolicyIsInvalid(exception_handling)
            THEN Raise(Exc("ValueError", exception_handling, 0))
       ELSE IF ConcatRaises(dfs) THEN Raise(Exc("ValueError", "pd.concat", 0))
       ELSE Return(Concat(dfs))

\* the except block of read_sql, entered with the error e
HandleStreamError(e) ==
    /\ spinner' = Append(spinner, "fail")
    /\ warned' = logger
    /\ IF PolicyIsRaise(exception_handling) THEN Raise(e)
       ELSE IF PolicyIsInvalid(exception_handling)
            THEN Raise(Exc("ValueError", exception_handling, 0))
       ELSE IF ConcatRaises(dfs) THEN Raise(Exc("ValueError", "pd.concat", 0))
       ELSE Return(Concat(dfs))

\* a loop that puts the newest batch at the head of the list
StreamBatchPrepends ==
    /\ pc = "stream" /\ stream = "open"
    /\ sent < NumBatches(Len(rows), chunksize)
    /\ sent' = sent + 1
    /\ events' = Append(events, "fetch")
    /\ dfs' = <<Batch(rows, chunksize, sent + 1)>> \o dfs
    /\ cnt' = cnt + Len(Batch(rows, chunksize, sent + 1))
    /\ UNCHANGED <<op, pc, handle, nb_trials, logger, chunksize,
                   exception_handling, rows, x, trace, diag, committed, stream,
                   streamErr, spinner, warned, outcome, err, result,
                   arg, stmt, prev>>

\* for df in res: one more batch arrives
StreamBatch ==
    /\ pc = "stream" /\ stream = "open"
    /\ sent < NumBatches(Len(rows), chunksize)
    /\ sent' = sent + 1
    /\ events' = Append(events, "fetch")
    /\ dfs' = Append(dfs, Batch(rows, chunksize, sent + 1))
    /\ cnt' = cnt + Len(Batch(rows, chunksize, sent + 1))
    /\ UNCHANGED <<op, pc, handle, nb_trials, logger, chunksize,
                   exception_handling, rows, x, trace, diag, committed, stream,
                   streamErr, spinner, warned, outcome, err, result,
                   arg, stmt, prev>>

\* the stream is exhausted: concatenate and report success
StreamEnd ==
    /\ pc = "stream" /\ stream = "open"
    /\ sent = NumBatches(Len(rows), chunksize)
    /\ stream' = "exhausted"
    /\ events' = Append(events, "fetch")
    /\ IF ConcatRaises(dfs)
       THEN HandleStreamError(Exc("ValueError", "pd.concat", 0))
       ELSE /\ spinner' = Append(spinner, "succeed")
            /\ warned' = warned
            /\ Return(Concat(dfs))
    /\ UNCHANGED <<op, handle, nb_trials, logger, chunksize, exception_handling,
                   rows, x, trace, diag, committed, sent, streamErr, dfs, cnt,
                   arg, stmt, prev>>

\* fetching the next batch raises
StreamFails(e) ==
    /\ pc = "stream" /\ stream = "open"
    /\ stream' = "failed"
    /\ streamErr' = Exc(e, "fetch", sent + 1)
    /\ events' = Append(events, "fetch")
    /\ HandleStreamError(Exc(e, "fetch", sent + 1))
    /\ UNCHANGED <<op, handle, nb_trials, logger, chunksize, exception_handling,
                   rows, x, trace, diag, committed, sent, dfs, cnt,
                   arg, stmt, prev>>

\* ----- specification ----------------------------------------------------------
Outcomes == {Ok} \cup {Failure(e, at) : e \in DriverErrors, at \in {"begin", "call"}}

\* the arguments of the calls
Trials == -1..MaxTrials
ChunkSizes == {None} \cup 1..MaxChunk
RowCounts == 0..MaxRows

CallRunFunc ==
    /\ pc = "idle"
    /\ \E n \in Trials, lg \in BOOLEAN : run_func(n, lg)

CallExecSql ==
    /\ pc = "idle"
    /\ \E h \in Handles, n \in Trials, lg \in BOOLEAN : exec_sql(h, n, lg)

CallReadSql ==
    /\ pc = "idle"
    /\ \E sql \in SqlInputs, h \in Handles, n \in Trials, lg \in BOOLEAN,
          cs \in ChunkSizes, eh \in Policies, nr \in RowCounts :
          read_sql(sql, h, n, lg, cs, eh, nr)

CallReadSqlBeginFails ==
    /\ pc = "idle"
    /\ \E sql \in SqlInputs, h \in Handles, n \in Trials, lg \in BOOLEAN,
          cs \in ChunkSizes, eh \in Policies, nr \in RowCounts,
          e \in DriverErrors :
          read_sql_begin_fails(sql, h, n, lg, cs, eh, nr, e)

CallTempTableDrop ==
    /\ pc = "idle"
    /\ \E h \in Handles, o \in Outcomes : temp_table_drop(h, o)

\* sequences of at most n elements of S, without repetition
RECURSIVE ListsUpTo(_, _)
ListsUpTo(S, n) ==
    IF n = 0 THEN {<<>>}
    ELSE LET shorter == ListsUpTo(S, n - 1) IN
         shorter \cup {Append(l, e) : l \in {m \in shorter : Len(m) = n - 1},
                                      e \in S}

NoRepeat(l) == \A i, j \in DOMAIN l : i # j => l[i] # l[j]
TableLists == {l \in ListsUpTo(TableNames, MaxTables) : NoRepeat(l)}
Texts == ListsUpTo(Chars, MaxLen)

CallTempTableFindNewId ==
    /\ pc = "idle"
    /\ \E names \in TableLists : FindNewId(names)

CallTrimSqlQuery ==
    /\ pc = "idle"
    /\ \E s \in Texts : TrimSqlQuery(s)

Next ==
    \/ CallRunFunc
    \/ CallExecSql
    \/ CallReadSql
    \/ CallReadSqlBeginFails
    \/ CallTempTableDrop
    \/ CallTempTableFindNewId
    \/ CallTrimSqlQuery
    \/ FuncReturns
    \/ \E e \in DriverErrors, at \in {"begin", "call"} : FuncFailsTransient(e, at)
    \/ \E e \in DriverErrors, at \in {"begin", "call"} : FuncFailsPropagate(e, at)
    \/ RunFuncExhausted
    \/ StreamBatch
    \/ StreamEnd
    \/ \E e \in DriverErrors : StreamFails(e)
    \/ CallEnds

Spec == Init /\ [][Next]_vars

\* ----- run_func when every invocation of the operation terminates -------------
\* A call of func ends, with a result or with an error, and the loop goes on:
\* a step of the loop that can be taken is taken.
TrialStep ==
    \/ FuncReturns
    \/ \E e \in DriverErrors, at \in {"begin", "call"} : FuncFailsTransient(e, at)
    \/ \E e \in DriverErrors, at \in {"begin", "call"} : FuncFailsPropagate(e, at)
    \/ RunFuncExhausted

NextRunFunc ==
    \/ CallRunFunc
    \/ CallExecSql
    \/ FuncReturns
    \/ \E e \in DriverErrors, at \in {"begin", "call"} : FuncFailsTransient(e, at)
    \/ \E e \in DriverErrors, at \in {"begin", "call"} : FuncFailsPropagate(e, at)
    \/ RunFuncExhausted
    \/ CallEnds

SpecRunFunc == Init /\ [][NextRunFunc]_vars /\ WF_vars(TrialStep)

\* ----- two calls on the same driver behaviour ---------------------------------
\* A call is made, what it did is kept in prev, and the same call is made again
\* with another logger or another exception_handling while the driver does what
\* it did the first time: the same outcome for each invocation of the
\* operation, the same batches and the same end of the stream.
PairErrors == {"OperationalError", "DataError", "ProgrammingError", "ValueError"}
PairSql == Str(<<"a", "\n", "b">>)

Summary ==
    [op |-> op, handle |-> handle, nb_trials |-> nb_trials, logger |-> logger,
     chunksize |-> chunksize, exception_handling |-> exception_handling,
     rows |-> rows, arg |-> arg, trace |-> trace, diag |-> diag,
     events |-> events, committed |-> committed, stream |-> stream,
     sent |-> sent, streamErr |-> streamErr, spinner |-> spinner,
     outcome |-> outcome, err |-> err, result |-> result]

\* the second call meets the driver behaviour of the first
Replays ==
    \/ prev.op = "none"
    \/ /\ Len(trace) <= Len(prev.trace)
       /\ trace = SubSeq(prev.trace, 1, Len(trace))
       /\ sent <= prev.sent
       /\ stream = "exhausted" => prev.stream = "exhausted"
       /\ stream = "failed" => prev.stream = "failed" /\ streamErr = prev.streamErr

PairCallRunFunc ==
    /\ pc = "idle" /\ prev.op = "none"
    /\ \E n \in Trials, lg \in BOOLEAN : run_func(n, lg)

PairCallExecSql ==
    /\ pc = "idle" /\ prev.op = "none"
    /\ \E h \in Handles, n \in Trials, lg \in BOOLEAN : exec_sql(h, n, lg)

PairCallReadSql ==
    /\ pc = "idle" /\ prev.op = "none"
    /\ \E h \in Handles, n \in Trials, lg \in BOOLEAN, cs \in ChunkSizes,
          eh \in Policies, nr \in RowCounts :
          read_sql(PairSql, h, n, lg, cs, eh, nr)

PairCallReadSqlBeginFails ==
    /\ pc = "idle" /\ prev.op = "none"
    /\ \E h \in Handles, n \in Trials, lg \in BOOLEAN, cs \in ChunkSizes,
          eh \in Policies, nr \in RowCounts, e \in PairErrors :
          read_sql_begin_fails(PairSql, h, n, lg, cs, eh, nr, e)

\* the first call is over: keep what it did
PairRecord ==
    /\ pc = "done" /\ prev.op = "none"
    /\ prev' = Summary
    /\ Reset

\* the same call again, with the other logger or another exception_handling
PairRepeat ==
    /\ pc = "idle" /\ prev.op # "none"
    /\ \E lg \in BOOLEAN, eh \in Policies :
         /\ \/ lg # prev.logger /\ eh = prev.exception_handling
            \/ /\ lg = prev.logger /\ eh # prev.exception_handling
               /\ prev.op = "read_sql"
         /\ CASE prev.op = "run_func" -> run_func(prev.nb_trials, lg)
              [] prev.op = "exec_sql" ->
                   exec_sql(prev.handle, prev.nb_trials, lg)
              [] prev.op = "read_sql" ->
                   IF prev.err.origin = "begin"
                   THEN read_sql_begin_fails(prev.arg, prev.handle,
                            prev.nb_trials, lg, prev.chunksize, eh,
                            Len(prev.rows), prev.err.type)
                   ELSE read_sql(prev.arg, prev.handle, prev.nb_trials, lg,
                                 prev.chunksize, eh, Len(prev.rows))

\* the second call is over
PairEnds ==
    /\ pc = "done" /\ prev.op # "none"
    /\ prev' = NoPrev
    /\ Reset

PairFuncReturns == FuncReturns /\ Replays'

PairFuncFailsTransient ==
    \E e \in PairErrors, at \in {"begin", "call"} :
        FuncFailsTransient(e, at) /\ Replays'

PairFuncFailsPropagate ==
    \E e \in PairErrors, at \in {"begin", "call"} :
        FuncFailsPropagate(e, at) /\ Replays'

PairStreamBatch == StreamBatch /\ Replays'

PairStreamEnd == StreamEnd /\ Replays'

PairStreamFails == \E e \in PairErrors : StreamFails(e) /\ Replays'

NextPair ==
    \/ PairCallRunFunc
    \/ PairCallExecSql
    \/ PairCallReadSql
    \/ PairCallReadSqlBeginFails
    \/ PairRecord
    \/ PairRepeat
    \/ PairEnds
    \/ PairFuncReturns
    \/ PairFuncFailsTransient
    \/ PairFuncFailsPropagate
    \/ RunFuncExhausted
    \/ PairStreamBatch
    \/ PairStreamEnd
    \/ PairStreamFails

SpecPair == Init /\ [][NextPair]_vars

\* ----- properties ---------------------------------------------------------------
\* The three failure classes as the specification names them, by error class
FatalErrors == {"ProgrammingError", "IntegrityError"}
TransientErrors ==
    {"OperationalError", "InterfaceError", "DataError", "DatabaseError",
     "psOperationalError"}
IsUnknownError(t) == t \notin FatalErrors \cup TransientErrors \cup {"ok"}

\* the operations that go through run_func
ViaRunFunc == op \in {"run_func", "exec_sql", "read_sql"}

calls == Len(trace)

\* C1: with nb_trials = N >= 1 and an operation that fails transiently on every
\* call, run_func never makes more than N invocations, and once it has ended it
\* has made exactly N and raised the RuntimeError that names the operation and N
\* (for N = 1 as well: never the transient error itself).
C1_AllTransientExhausts ==
    (/\ ViaRunFunc /\ nb_trials >= 1 /\ trace # <<>>
     /\ \A i \in 1..Len(trace) : trace[i].type \in TransientErrors)
    => /\ calls <= nb_trials
       /\ pc = "done" =>
            /\ calls = nb_trials
            /\ outcome = "raise"
            /\ err = [type |-> "RuntimeError", origin |-> FuncName(op),
                      idx |-> nb_trials]

C1_Witness ==
    /\ op = "run_func" /\ pc = "done" /\ nb_trials = 1
    /\ Len(trace) = 1 /\ trace[1].type = "OperationalError"
    /\ outcome = "raise" /\ err.type = "RuntimeError" /\ err.idx = 1

\* C2: an invocation that raises a programming or integrity error is the last
\* invocation of the call, whatever the trial and whatever nb_trials, and the
\* call ends by raising that very error (not the RuntimeError of exhaustion).
C2_FatalPropagates ==
    ViaRunFunc =>
      \A i \in 1..Len(trace) :
        trace[i].type \in FatalErrors =>
          /\ i = Len(trace)
          /\ pc = "done" /\ outcome = "raise"
          /\ err = [type |-> trace[i].type, origin |-> "func", idx |-> i]

C2_Witness ==
    /\ op = "run_func" /\ pc = "done" /\ nb_trials = 3
    /\ Len(trace) = 2 /\ trace[1].type = "OperationalError"
    /\ trace[2].type = "ProgrammingError"
    /\ outcome = "raise" /\ err.type = "ProgrammingError" /\ err.idx = 2

\* C3: when trials 1..k-1 fail transiently and trial k succeeds, the operation
\* has been invoked exactly k times (k <= nb_trials), run_func returns the
\* result of trial k, and with a logger the diagnostics emitted are exactly
\* those of attempts 1, 2, .., k-1 in this order (none without a logger, none
\* after the success).
C3_SuccessOnTrialK ==
    (/\ ViaRunFunc /\ trace # <<>> /\ trace[Len(trace)].type = "ok"
     /\ \A i \in 1..(Len(trace) - 1) : trace[i].type \in TransientErrors)
    => /\ calls <= nb_trials
       /\ diag = IF logger THEN [i \in 1..(calls - 1) |-> i] ELSE <<>>
       /\ op \in {"run_func", "exec_sql"} =>
            pc = "done" /\ outcome = "return" /\ result = <<calls>>
       /\ (op = "read_sql" /\ chunksize = None) =>
            pc = "done" /\ outcome = "return" /\ result = rows
       /\ (op = "read_sql" /\ chunksize # None) => stream # "none"

C3_Witness ==
    /\ op = "run_func" /\ pc = "done" /\ logger
    /\ Len(trace) = 3 /\ trace[3].type = "ok"
    /\ diag = <<1, 2>> /\ outcome = "return" /\ result = <<3>>

\* C4: an invocation that raises an error that is neither fatal nor transient is
\* the last invocation of the call; the call ends by raising that very error,
\* and no diagnostic is emitted for that trial.
C4_UnknownPropagates ==
    ViaRunFunc =>
      \A i \in 1..Len(trace) :
        IsUnknownError(trace[i].type) =>
          /\ i = Len(trace)
          /\ pc = "done" /\ outcome = "raise"
          /\ err = [type |-> trace[i].type, origin |-> "func", idx |-> i]
          /\ err.type # "RuntimeError"
          /\ \A j \in 1..Len(diag) : diag[j] < i
          /\ Len(diag) <= i - 1

C4_Witness ==
    /\ op = "exec_sql" /\ pc = "done" /\ logger /\ nb_trials = 3
    /\ Len(trace) = 2 /\ trace[1].type = "InterfaceError"
    /\ trace[2].type = "ValueError"
    /\ diag = <<1>> /\ outcome = "raise" /\ err.type = "ValueError"

\* the rows the stream has delivered so far, in the driver's order
RowsDelivered == SubSeq(rows, 1, Min(sent * chunksize, Len(rows)))

\* C5: a chunked read whose stream raises after delivering batches b1..bj,
\* j >= 1: under 'raise' the call raises the stream's own error and returns no
\* table; under 'warn' the call raises nothing and returns the rows of b1..bj
\* in arrival order.
C5_MidStreamPolicy ==
    (/\ op = "read_sql" /\ chunksize # None /\ pc = "done"
     /\ stream = "failed" /\ sent >= 1)
    => /\ streamErr.origin = "fetch" /\ streamErr.idx = sent + 1
       /\ exception_handling = "raise" =>
            outcome = "raise" /\ err = streamErr /\ result = NoResult
       /\ exception_handling = "warn" =>
            outcome = "return" /\ err = NoErr /\ result = RowsDelivered

C5_Witness ==
    /\ op = "read_sql" /\ chunksize = 1 /\ pc = "done" /\ Len(rows) = 3
    /\ stream = "failed" /\ sent = 2 /\ exception_handling = "warn"
    /\ outcome = "return" /\ result = <<1, 2>>

\* C6: a chunked read whose stream is exhausted without an error returns the
\* rows of all the batches in arrival order, which is the statement's result
\* set whatever the chunk size and whatever exception_handling.
C6_FullStreamConcatenated ==
    (/\ op = "read_sql" /\ chunksize # None /\ pc = "done"
     /\ stream = "exhausted")
    => /\ sent = NumBatches(Len(rows), chunksize)
       /\ outcome = "return" /\ err = NoErr
       /\ result = rows

C6_Witness ==
    /\ op = "read_sql" /\ chunksize = 1 /\ pc = "done" /\ Len(rows) = 3
    /\ stream = "exhausted" /\ sent = 3 /\ exception_handling = "warn"
    /\ outcome = "return" /\ result = <<1, 2, 3>>

\* begin / commit / rollback among the events, in order
IsTxEvent(e) == e \in {"begin", "commit", "rollback"}
TxEvents == SelectSeq(events, IsTxEvent)
Count(seq, e) == Cardinality({i \in DOMAIN seq : seq[i] = e})
OpenTx == Count(events, "begin") - Count(events, "commit") - Count(events, "rollback")

\* the transactions one engine_execute per invocation has to produce: none when
\* begin itself failed, else begin and commit (success) or rollback (failure)
RECURSIVE TxPerTrial(_)
TxPerTrial(tr) ==
    IF tr = <<>> THEN <<>>
    ELSE LET o == tr[Len(tr)] IN
         TxPerTrial(SubSeq(tr, 1, Len(tr) - 1)) \o
         (IF o.at = "begin" THEN <<>>
          ELSE <<"begin", IF o.type = "ok" THEN "commit" ELSE "rollback">>)

\* the transaction read_sql's with block has to produce around run_func
TxAroundRunFunc ==
    IF pc = "done" /\ err.origin = "begin" THEN <<>>
    ELSE IF pc = "trial" THEN <<"begin">>
    ELSE <<"begin",
           IF trace # <<>> /\ trace[Len(trace)].type = "ok"
           THEN "commit" ELSE "rollback">>

\* C7: with an Engine handle, each scope opened by engine_execute (exec_sql,
\* temp_table_drop) and by read_sql begins a transaction, commits it when the
\* block is left normally and rolls it back when an error leaves it; once the
\* public operation has returned or raised no transaction is open.
C7_EngineScopeClosed ==
    handle = "Engine" =>
      /\ op \in {"exec_sql", "temp_table_drop"} => TxEvents = TxPerTrial(trace)
      /\ op = "read_sql" => TxEvents = TxAroundRunFunc
      /\ OpenTx \in {0, 1}
      /\ pc = "done" => OpenTx = 0

C7_Witness ==
    /\ op = "read_sql" /\ handle = "Engine" /\ pc = "done"
    /\ outcome = "raise" /\ err.type = "RuntimeError" /\ nb_trials = 2
    /\ events = <<"begin", "execute", "execute", "rollback">>

\* C8: with a Connection handle this layer issues no begin, commit, rollback or
\* close on it: the only calls made on the connection are the statements and
\* the batch fetches, in every execution.
C8_ConnectionUntouched ==
    handle = "Connection" =>
      \A i \in DOMAIN events :
        events[i] \in {"nullenter", "execute", "fetch", "nullexit"}

C8_Witness ==
    /\ op = "read_sql" /\ handle = "Connection" /\ pc = "done"
    /\ Len(trace) = 2 /\ trace[1].type = "OperationalError"
    /\ stream = "failed" /\ sent = 1 /\ outcome = "raise"
    /\ events = <<"nullenter", "execute", "execute", "nullexit", "fetch", "fetch">>

\* C9: exec_sql on an Engine runs every trial in a transaction of its own that
\* is closed before the next trial: the transaction events alternate begin and
\* commit/rollback, every failed statement is rolled back, there is at most one
\* commit, it is issued exactly when the call returns, only the successful
\* trial's writes are committed, and nothing is committed when the call raises.
C9_ExecSqlTrialTransactions ==
    (op = "exec_sql" /\ handle = "Engine") =>
      /\ \A i \in DOMAIN TxEvents :
           TxEvents[i] = "begin" <=> i % 2 = 1
      /\ Len(TxEvents) % 2 = 0
      /\ Count(events, "rollback") =
           Cardinality({i \in DOMAIN trace :
                          trace[i].type # "ok" /\ trace[i].at = "call"})
      /\ Count(events, "commit") <= 1
      /\ committed \subseteq {i \in DOMAIN trace : trace[i].type = "ok"}
      /\ pc = "done" =>
           /\ Count(events, "commit") = 1 <=> outcome = "return"
           /\ outcome = "return" => committed = {Len(trace)}
           /\ outcome = "raise" => committed = {}

C9_Witness ==
    /\ op = "exec_sql" /\ handle = "Engine" /\ pc = "done"
    /\ outcome = "return" /\ committed = {2}
    /\ events = <<"begin", "execute", "rollback", "begin", "execute", "commit">>

\* C10: in a chunked read no batch is fetched from the stream after the scope
\* acquired for the read was released (committed, rolled back or passed
\* through).
C10_ScopeOutlivesStream ==
    op = "read_sql" =>
      \A i, j \in DOMAIN events :
        (i < j /\ events[i] \in {"commit", "rollback", "nullexit"})
        => events[j] # "fetch"

\* the error classes that are fatal or unknown: never retried
IsFatalOrUnknown(t) == t \in FatalErrors \/ IsUnknownError(t)

\* C11: a fatal or unknown error raised by the driver never ends in a normal
\* return of run_func, exec_sql or read_sql, except for a chunked read under
\* 'warn' whose stream the error interrupted; raised by an invocation of the
\* operation (run_func, exec_sql, read_sql before it has the stream) it reaches
\* the caller as the very same error.
C11_FatalUnknownNotSwallowed ==
    ViaRunFunc =>
      /\ \A i \in DOMAIN trace :
           IsFatalOrUnknown(trace[i].type) =>
             /\ pc = "done" /\ outcome = "raise"
             /\ err = [type |-> trace[i].type, origin |-> "func", idx |-> i]
      /\ (streamErr # NoErr /\ IsFatalOrUnknown(streamErr.type)
          /\ outcome = "return")
         => /\ op = "read_sql" /\ chunksize # None
            /\ exception_handling = "warn" /\ stream = "failed"

C11_Witness ==
    /\ op = "read_sql" /\ pc = "done" /\ chunksize = 1
    /\ exception_handling = "warn" /\ stream = "failed" /\ sent = 1
    /\ streamErr.type = "ProgrammingError" /\ outcome = "return"

\* C12: a chunked read under 'warn' whose stream raises before it has delivered
\* any batch raises nothing and returns the empty table.
C12_WarnWithNoBatchReturnsEmpty ==
    (/\ op = "read_sql" /\ chunksize # None /\ pc = "done"
     /\ exception_handling = "warn" /\ stream = "failed" /\ sent = 0)
    => outcome = "return" /\ err = NoErr /\ result = <<>>

\* C13: a chunked read with an exception_handling other than 'raise' and 'warn':
\* when an error interrupts the stream the call reports the failure to the
\* spinner and raises the ValueError that names the value, returning no table;
\* when the stream ends without an error the value is never looked at and the
\* call returns the whole result set and reports success.
C13_InvalidPolicyOnlyOnError ==
    (/\ op = "read_sql" /\ chunksize # None /\ pc = "done"
     /\ exception_handling \notin {"raise", "warn"})
    => /\ stream = "failed" =>
            /\ outcome = "raise" /\ result = NoResult
            /\ err = [type |-> "ValueError", origin |-> exception_handling,
                      idx |-> 0]
            /\ spinner = <<"start", "fail">>
       /\ stream = "exhausted" =>
            /\ outcome = "return" /\ err = NoErr /\ result = rows
            /\ spinner = <<"start", "succeed">>

C13_Witness ==
    /\ op = "read_sql" /\ chunksize = 1 /\ pc = "done" /\ Len(rows) = 2
    /\ exception_handling = "ignore" /\ stream = "failed" /\ sent = 1
    /\ outcome = "raise" /\ err.type = "ValueError" /\ err.origin = "ignore"
    /\ spinner = <<"start", "fail">>

\* the second of two calls on the same driver behaviour
Second == prev.op # "none" /\ op # "none"

\* the second call asks the driver for nothing the first did not ask for
AsksNoMore ==
    /\ (pc = "trial" /\ x < nb_trials) => Len(trace) < Len(prev.trace)
    /\ pc = "stream" => prev.stream # "none" /\ sent <= prev.sent

\* C14: on the same driver behaviour run_func, exec_sql and read_sql called
\* with a logger and without one invoke the operation as often, open, commit
\* and roll back the same scopes, fetch the same batches and end with the same
\* returned value or the same error; the warnings are all that differs.
C14_LoggerIsAdvisory ==
    (Second /\ logger # prev.logger
     /\ exception_handling = prev.exception_handling)
    => /\ AsksNoMore
       /\ pc = "done" =>
            /\ trace = prev.trace /\ events = prev.events
            /\ committed = prev.committed /\ sent = prev.sent
            /\ outcome = prev.outcome /\ err = prev.err /\ result = prev.result
            /\ Len(diag) = IF logger THEN x ELSE 0

C14_Witness ==
    /\ Second /\ pc = "done" /\ op = "read_sql" /\ chunksize = 1
    /\ ~logger /\ prev.logger /\ exception_handling = "raise"
    /\ Len(trace) = 2 /\ prev.diag = <<1>> /\ diag = <<>>
    /\ stream = "failed" /\ sent = 1 /\ ~warned
    /\ outcome = "raise" /\ err.type = "OperationalError"

\* C20: on the same driver behaviour two read_sql calls that differ in
\* exception_handling end the same way unless an error interrupts a stream
\* that was obtained: an unchunked read, and a read whose stream cannot be
\* obtained (Fatal, Unknown, retries exhausted, scope not opened), raise the
\* same error under every policy and return no table, and a read without an
\* error returns the same table.
C20_PolicyOnlyMidStream ==
    (Second /\ op = "read_sql" /\ logger = prev.logger
     /\ exception_handling # prev.exception_handling)
    => /\ AsksNoMore
       /\ (pc = "done" /\ stream # "failed") =>
            /\ trace = prev.trace /\ events = prev.events
            /\ outcome = prev.outcome /\ err = prev.err /\ result = prev.result
            /\ stream = "exhausted" => outcome = "return" /\ result = rows
            /\ stream = "none" =>
                 IF trace # <<>> /\ trace[Len(trace)].type = "ok"
                 THEN chunksize = None /\ outcome = "return" /\ result = rows
                 ELSE outcome = "raise" /\ result = NoResult

C20_Witness ==
    /\ Second /\ pc = "done" /\ op = "read_sql" /\ chunksize = 1
    /\ exception_handling = "warn" /\ prev.exception_handling = "raise"
    /\ Len(trace) = 2 /\ stream = "none"
    /\ outcome = "raise" /\ err.type = "ProgrammingError"
    /\ prev.outcome = "raise" /\ prev.err.type = "ProgrammingError"

\* the ids the specification reads off a list of table names: those of the
\* names that begin with mttmp_ followed by digits
UsedIds(names) ==
    {StrToInt(MatchTemp(names[i])) :
        i \in {j \in DOMAIN names : MatchTemp(names[j]) # <<>>}}

ExpectedNewId(names) ==
    IF UsedIds(names) = {} THEN 0
    ELSE 1 + CHOOSE m \in UsedIds(names) : \A k \in UsedIds(names) : k <= m

\* the ids whose temp table name is among the names
TakenIds(names) ==
    {n \in 0..(Len(names) + 1) : \E i \in DOMAIN names : names[i] = temp_table_name(n)}

LowestUnusedId(names) ==
    CHOOSE n \in 0..(Len(names) + 1) :
        n \notin TakenIds(names) /\ \A k \in 0..(n - 1) : k \in TakenIds(names)

\* C15: for every list of existing table names temp_table_find_new_id returns
\* one more than the largest id among the names of the form mttmp_<digits>, and
\* 0 when no name has that form.
C15_NewIdIsMaxPlusOne ==
    (op = "temp_table_find_new_id" /\ pc = "done")
    => outcome = "return" /\ result = <<ExpectedNewId(arg.text)>>

\* C16: the id temp_table_find_new_id returns is the lowest id n >= 0 for which
\* no existing table is named mttmp_<n>.
C16_NewIdIsLowestUnused ==
    (op = "temp_table_find_new_id" /\ pc = "done")
    => outcome = "return" /\ result = <<LowestUnusedId(arg.text)>>

\* the whitespace-separated words of a text, by position
WordStarts(s) ==
    {i \in DOMAIN s : ~IsSpace(s[i]) /\ (i = 1 \/ IsSpace(s[i - 1]))}

WordEnd(s, i) ==
    CHOOSE e \in i..Len(s) :
        /\ \A j \in i..e : ~IsSpace(s[j])
        /\ e = Len(s) \/ IsSpace(s[e + 1])

Words(s) ==
    [k \in 1..Cardinality(WordStarts(s)) |->
        LET i == CHOOSE b \in WordStarts(s) :
                   Cardinality({c \in WordStarts(s) : c < b}) = k - 1
        IN SubSeq(s, i, WordEnd(s, i))]

\* C17: the text trim_sql_query returns has no line break and no two whitespace
\* characters in a row, has the words of the original text in their order, and
\* is left as it is by a second trim_sql_query; read_sql executes the text as
\* it was given (or the query object it was given) and only displays the
\* trimmed text.
C17_TrimOnlyForDisplay ==
    /\ (op = "trim_sql_query" /\ pc = "done") =>
         /\ outcome = "return"
         /\ \A i \in DOMAIN result : ~IsLineBreak(result[i])
         /\ \A i \in 1..(Len(result) - 1) :
              ~(IsSpace(result[i]) /\ IsSpace(result[i + 1]))
         /\ Words(result) = Words(arg.text)
         /\ trim_sql_query(result) = result
    /\ op = "read_sql" =>
         /\ arg.kind = "str" =>
              stmt.executable = [kind |-> "TextClause", text |-> arg.text]
         /\ arg.kind = "query" => stmt.executable = arg
         /\ (pc = "trial" /\ trace = <<>>) =>
              /\ Words(stmt.display) = Words(arg.text)
              /\ \A i \in 1..(Len(stmt.display) - 1) :
                   ~(IsSpace(stmt.display[i]) /\ IsSpace(stmt.display[i + 1]))

C17_Witness ==
    /\ op = "trim_sql_query" /\ pc = "done"
    /\ arg.text = <<"a", "\n", "\t", "b">>
    /\ result = <<"a", " ", "b">>

\* C18: in a chunked read the retries cover only the call that obtains the
\* stream: once read_sql has the stream pandas.read_sql is not called again,
\* every batch is fetched once, and an error of the stream (transient or not,
\* with trials left or not) ends the call with that fetch.
C18_NoRetryMidStream ==
    op = "read_sql" =>
      /\ Count(events, "execute") = Len(trace)
      /\ Cardinality({i \in DOMAIN trace : trace[i].type = "ok"}) <= 1
      /\ stream # "none" =>
           /\ trace # <<>> /\ trace[Len(trace)].type = "ok"
           /\ \A i, j \in DOMAIN events :
                (i < j /\ events[i] = "fetch") => events[j] # "execute"
      /\ stream = "open" => Count(events, "fetch") = sent
      /\ stream = "failed" =>
           /\ pc = "done"
           /\ Count(events, "fetch") = sent + 1
           /\ streamErr.idx = sent + 1

C18_Witness ==
    /\ op = "read_sql" /\ pc = "done" /\ chunksize = 1 /\ nb_trials = 3
    /\ Len(trace) = 1 /\ stream = "failed" /\ sent = 1
    /\ streamErr.type = "OperationalError"
    /\ events = <<"nullenter", "execute", "nullexit", "fetch", "fetch">>

\* the class the specification gives each error class
ExpectedClass(t) ==
    IF t \in FatalErrors THEN "Fatal"
    ELSE IF t \in TransientErrors THEN "Transient"
    ELSE "Unknown"

\* every error class is given the class the specification gives it
ClassifiedAsSpecified == \A t \in ExcTypes : Classify(t) = ExpectedClass(t)

\* C19: run_func's classification gives every error class exactly one of Fatal,
\* Transient, Unknown: programming and integrity errors are Fatal although they
\* are database errors, the other database, operational and interface errors
\* are Transient, all the rest is Unknown; each failed trial is handled once,
\* by its class: a transient failure advances the loop (and is reported once
\* when there is a logger), any other failure ends the call with that error.
C19_ClassificationTotal ==
    /\ ClassifiedAsSpecified
    /\ ViaRunFunc =>
         /\ x = Cardinality({i \in DOMAIN trace :
                               ExpectedClass(trace[i].type) = "Transient"
                               /\ trace[i].type # "ok"})
         /\ Len(diag) = IF logger THEN x ELSE 0
         /\ \A i \in DOMAIN trace :
              (trace[i].type # "ok"
               /\ ExpectedClass(trace[i].type) # "Transient")
              => /\ i = Len(trace) /\ outcome = "raise"
                 /\ err.type = trace[i].type

C19_Witness ==
    /\ op = "run_func" /\ pc = "done" /\ logger
    /\ Len(trace) = 2 /\ trace[1].type = "DataError"
    /\ trace[2].type = "IntegrityError"
    /\ x = 1 /\ diag = <<1>> /\ err.type = "IntegrityError"

\* the k-th batch the stream delivers: the next chunksize rows of the result
\* set, or the rows that are left
Delivered(k) ==
    LET first == (k - 1) * chunksize + 1
        last == IF k * chunksize < Len(rows) THEN k * chunksize ELSE Len(rows)
    IN [i \in 1..(last - first + 1) |-> rows[first + i - 1]]

RECURSIVE SumLen(_)
SumLen(l) == IF l = <<>> THEN 0 ELSE Len(l[1]) + SumLen(Tail(l))

Accumulating == op = "read_sql" /\ chunksize # None

\* the list holds the batches delivered so far, in arrival order
AccumulatedInOrder ==
    Accumulating =>
      /\ Len(dfs) = sent
      /\ \A k \in DOMAIN dfs : dfs[k] = Delivered(k)
      /\ cnt = SumLen(dfs)

\* a step of the call leaves the list as it is or appends the newest batch
AccumulatesByAppending ==
    (Accumulating /\ op' = op) =>
      \/ dfs' = dfs /\ cnt' = cnt
      \/ /\ sent' = sent + 1
         /\ dfs' = Append(dfs, Delivered(sent + 1))
         /\ cnt' = cnt + Len(Delivered(sent + 1))

\* C21: while read_sql consumes a chunk stream the batch list is the sequence
\* of the batches delivered so far in arrival order, a step only appends the
\* newest batch to it (it never shrinks and is never reordered), and the
\* running row count is the sum of the row counts of the listed batches.
C21_BatchListGrowsInOrder ==
    []AccumulatedInOrder /\ [][AccumulatesByAppending]_vars

C21_Witness ==
    /\ op = "read_sql" /\ pc = "stream" /\ chunksize = 2 /\ Len(rows) = 3
    /\ sent = 2 /\ dfs = <<<<1, 2>>, <<3>>>> /\ cnt = 3

\* the number of invocations nb_trials allows
Allowed == IF nb_trials > 0 THEN nb_trials ELSE 0

InvocationsBounded ==
    ViaRunFunc =>
      /\ Len(trace) <= Allowed
      /\ \A i \in 2..Len(trace) : trace[i - 1].type \in TransientErrors
      /\ pc = "trial" => x = Len(trace)

\* C22: run_func invokes the operation at most nb_trials times, an invocation
\* other than the first directly follows a Transient failure of the one before,
\* the trial counter of a call counts the invocations of that call only, and
\* when every invocation terminates the call terminates, with a result, a
\* propagated error or the exhaustion error.
C22_RunFuncTerminates ==
    []InvocationsBounded /\ ((pc = "trial") ~> (pc = "done"))

C22_Witness ==
    /\ op = "run_func" /\ pc = "done" /\ nb_trials = 3
    /\ Len(trace) = 3 /\ trace[1].type = "OperationalError"
    /\ trace[2].type = "DataError" /\ trace[3].type = "ok"
    /\ outcome = "return"

\* C23: with nb_trials <= 0 run_func does not invoke the operation, emits no
\* diagnostic, and ends with the exhaustion error that reports nb_trials;
\* whether the operation would have succeeded makes no difference.
C23_NoTrialsRaisesExhaustion ==
    (op \in {"run_func", "exec_sql"} /\ nb_trials <= 0) =>
      /\ trace = <<>> /\ diag = <<>> /\ committed = {}
      /\ ~(ENABLED FuncReturns)
      /\ pc = "done" =>
           /\ outcome = "raise" /\ result = NoResult
           /\ err.type = "RuntimeError" /\ err.idx = nb_trials
           /\ err.origin = FuncName(op)

C23_Witness ==
    /\ op = "run_func" /\ pc = "done" /\ nb_trials = -1 /\ logger
    /\ trace = <<>> /\ diag = <<>>
    /\ outcome = "raise" /\ err = [type |-> "RuntimeError", origin |-> "func", idx |-> -1]

\* C24: in a chunked read_sql the spinner that was started gets exactly one
\* terminal report, succeed or fail, before the call returns or raises: succeed
\* when the stream was exhausted, fail when an error interrupted the stream or
\* the stream could not be obtained.
C24_SpinnerAlwaysClosed ==
    (op = "read_sql" /\ chunksize # None /\ pc = "done") =>
      /\ Len(spinner) = 2 /\ spinner[1] = "start"
      /\ spinner[2] = IF outcome = "return" /\ stream = "exhausted"
                      THEN "succeed" ELSE "fail"

====
